---- MODULE Spec2Model ----
(***************************************************************************)
(* Hospital emergency room simulation (src/Simulation.cpp).                *)
(*                                                                         *)
(* Processes: NumWorkers treatPatient threads, one patientArrival thread,  *)
(* one dynamicResourceGeneration thread, one staffBehavior thread and      *)
(* main.  Shared state: the priority queue guarded by queueMutex and the   *)
(* condition variable cv, four counting Semaphores, the atomic flag        *)
(* isRunning.                                                              *)
(*                                                                         *)
(* Granularity.  A Semaphore's private mutex protects only its own count,   *)
(* so each call of acquire (up to the point where it blocks), try_acquire   *)
(* and release is one step.  A critical section on queueMutex that contains *)
(* no blocking call is one step; a thread that keeps queueMutex across a    *)
(* blocking call or a sleep owns it in the states in between.  Every read   *)
(* of isRunning in a loop condition is a step of its own, and so are main's *)
(* write of isRunning and its notify_all.  A thread blocked in              *)
(* condition_variable::wait is a member of that condition variable's waiter *)
(* set; notify removes it, and wait may also return spuriously.             *)
(*                                                                         *)
(* Scale.  The model runs NumWorkers treatPatient threads on InitDoctors    *)
(* doctors, one fewer of each than main starts, and keeps the other pools   *)
(* at their size in the source.                                            *)
(***************************************************************************)
EXTENDS Integers, FiniteSets, Sequences, TLC

\* ---------------------------------------------------------------- bounds
\* Number of patients the arrival thread creates before it stays asleep.
MaxPatients == 2
\* Number of units dynamicResourceGeneration adds in total before rand() % 2
\* is taken to yield 0.
MaxGrow == 1

\* Largest starting count of a pool in the round trips of RoundTripSpec.
MaxStart == 2

\* Number of treatPatient threads; main starts one more.
NumWorkers == 2
\* Starting count of doctorsAvailable; the source starts with one more.
InitDoctors == 2

\* ------------------------------------------------------ program constants
InitNurses == 2
InitExamRooms == 2
InitVentilators == 1

HIGH == 0
MEDIUM == 1
LOW == 2
Priority == {HIGH, MEDIUM, LOW}

Workers == 1..NumWorkers
\* owners of queueMutex
Free == 0
PA == NumWorkers + 1
DRG == NumWorkers + 2
SB == NumWorkers + 3

Pools == {"doctors", "nurses", "examRooms", "ventilators"}
\* the pools dynamicResourceGeneration adds units to
GrowPools == {"doctors", "nurses", "examRooms"}

Patient(id, priority) == [id |-> id, priority |-> priority]
NoPatient == [id |-> 0, priority |-> HIGH]

VARIABLES
    isRunning,            \* atomic<bool> isRunning
    patientQueue,         \* the priority_queue, as the set of its elements
    queueMutex,           \* owner of queueMutex, Free when unlocked
    cv,                   \* threads blocked in cv.wait on the queue
    count,                \* Semaphore::count of each pool
    semcv,                \* threads blocked in Semaphore::cv.wait, per pool
    wpc,                  \* position of each treatPatient thread
    currentPatient,       \* treatPatient's local currentPatient
    ventilatorAllocated,  \* treatPatient's local ventilatorAllocated
    apc,                  \* position of patientArrival
    patientId,            \* patientArrival's local patientId
    rpc,                  \* position of dynamicResourceGeneration
    newUnits,             \* newDoctors, newNurses, newExamRooms, per pool
    spc,                  \* position of staffBehavior
    mpc,                  \* position of main
    capacity,             \* history: initial count plus units added, per pool
    held,                 \* history: units each worker owns, per pool
    staffHeld,            \* history: doctor units staffBehavior owns
    treated,              \* history: ids whose treatment finished
    ahead                 \* history: per worker blocked in a Semaphore's
                          \* cv.wait, the workers that were blocked there on
                          \* the same pool when it blocked

vars == <<isRunning, patientQueue, queueMutex, cv, count, semcv, wpc,
          currentPatient, ventilatorAllocated, apc, patientId, rpc, newUnits,
          spc, mpc, capacity, held, staffHeld, treated, ahead>>

queueVars == <<patientQueue, queueMutex, cv>>
semVars == <<count, semcv, capacity, ahead>>
workerVars == <<wpc, currentPatient, ventilatorAllocated, held, treated>>
arrivalVars == <<apc, patientId>>
resourceVars == <<rpc, newUnits>>
staffVars == <<spc, staffHeld>>

\* ------------------------------------------------------------ the queue
\* ComparePatient with the tie-break on the id reversed.
ComparePatient_NewestFirst(a, b) ==
    IF a.priority = b.priority
        THEN a.id < b.id
        ELSE a.priority > b.priority

\* ComparePatient::operator(): TRUE when a is ordered below b.
ComparePatient(a, b) ==
    IF a.priority = b.priority
        THEN a.id > b.id
        ELSE a.priority > b.priority

\* priority_queue::top(): the element no other element is ordered above.
Top(q) == CHOOSE t \in q : \A x \in q : ~ComparePatient(t, x)

\* The predicate of cv.wait in treatPatient.
WaitPredicate == patientQueue # {} \/ ~isRunning

\* notify_one that always wakes the waiter with the smallest thread number.
NotifyOne_FirstThread(waiters) ==
    IF waiters = {} THEN {{}}
    ELSE {waiters \ {CHOOSE t \in waiters : \A u \in waiters : t <= u}}

\* condition_variable::notify_one on a waiter set: the sets that can remain.
NotifyOne(waiters) ==
    IF waiters = {} THEN {{}} ELSE {waiters \ {t} : t \in waiters}

\* -------------------------------------------------------- the semaphores
\* try_acquire that succeeds without taking the unit.
try_acquire_NoDecrement(c) ==
    IF c > 0 THEN [ok |-> TRUE, count |-> c]
             ELSE [ok |-> FALSE, count |-> c]

\* try_acquire with the test count >= 0.
try_acquire_OffByOne(c) ==
    IF c >= 0 THEN [ok |-> TRUE, count |-> c - 1]
              ELSE [ok |-> FALSE, count |-> c]

\* Semaphore::try_acquire on a count: the result and the new count.
try_acquire(c) ==
    IF c > 0 THEN [ok |-> TRUE, count |-> c - 1]
             ELSE [ok |-> FALSE, count |-> c]

\* acquire that waits whatever the count.
acquire_AlwaysWait(c) == [ok |-> FALSE, count |-> c]

\* acquire without the wait for count > 0.
acquire_NoWait(c) == [ok |-> TRUE, count |-> c - 1]

\* Semaphore::acquire on a count: proceeds (ok) with the count decremented,
\* or blocks in cv.wait with the count unchanged.
acquire(c) ==
    IF c > 0 THEN [ok |-> TRUE, count |-> c - 1]
             ELSE [ok |-> FALSE, count |-> c]

\* release that adds two units.
release_Double(c) == c + 2

\* Semaphore::release, the critical section: ++count.
release(c) == c + 1

Init ==
    /\ isRunning = TRUE
    /\ patientQueue = {}
    /\ queueMutex = Free
    /\ cv = {}
    /\ count = [r \in Pools |->
                  CASE r = "doctors" -> InitDoctors
                    [] r = "nurses" -> InitNurses
                    [] r = "examRooms" -> InitExamRooms
                    [] r = "ventilators" -> InitVentilators]
    /\ semcv = [r \in Pools |-> {}]
    /\ wpc = [w \in Workers |-> "w_loop"]
    /\ currentPatient = [w \in Workers |-> NoPatient]
    /\ ventilatorAllocated = [w \in Workers |-> FALSE]
    /\ apc = "pa_loop"
    /\ patientId = 1
    /\ rpc = "dr_loop"
    /\ newUnits = [r \in GrowPools |-> 0]
    /\ spc = "sb_loop"
    /\ mpc = "m_run"
    /\ capacity = count
    /\ held = [w \in Workers |-> [r \in Pools |-> 0]]
    /\ staffHeld = 0
    /\ treated = {}
    /\ ahead = [w \in Workers |-> {}]

\* ------------------------------------------------------------ treatPatient
\* line 113: while (isRunning)
WLoop(w) ==
    /\ wpc[w] = "w_loop"
    /\ wpc' = [wpc EXCEPT ![w] = IF isRunning THEN "w_lock" ELSE "w_done"]
    /\ UNCHANGED <<isRunning, queueVars, semVars, currentPatient,
                   ventilatorAllocated, held, treated, arrivalVars,
                   resourceVars, staffVars, mpc>>

\* WDequeue that takes top() and leaves it in the queue.
WDequeue_NoPop(w) ==
    /\ wpc[w] = "w_lock"
    /\ w \notin cv
    /\ queueMutex = Free
    /\ IF ~WaitPredicate
         THEN /\ queueMutex' = w
              /\ wpc' = [wpc EXCEPT ![w] = "w_wait"]
              /\ UNCHANGED <<patientQueue, currentPatient>>
         ELSE IF ~isRunning /\ patientQueue = {}
           THEN /\ wpc' = [wpc EXCEPT ![w] = "w_done"]
                /\ UNCHANGED <<patientQueue, queueMutex, currentPatient>>
           ELSE /\ currentPatient' = [currentPatient EXCEPT ![w] = Top(patientQueue)]
                /\ wpc' = [wpc EXCEPT ![w] = "w_acqD"]
                /\ UNCHANGED <<patientQueue, queueMutex>>
    /\ UNCHANGED <<isRunning, cv, semVars, ventilatorAllocated, held, treated,
                   arrivalVars, resourceVars, staffVars, mpc>>

\* WDequeue whose lock stays held after the pop.
WDequeue_KeepsLock(w) ==
    /\ wpc[w] = "w_lock"
    /\ w \notin cv
    /\ queueMutex = Free
    /\ IF ~WaitPredicate
         THEN /\ queueMutex' = w
              /\ wpc' = [wpc EXCEPT ![w] = "w_wait"]
              /\ UNCHANGED <<patientQueue, currentPatient>>
         ELSE IF ~isRunning /\ patientQueue = {}
           THEN /\ wpc' = [wpc EXCEPT ![w] = "w_done"]
                /\ UNCHANGED <<patientQueue, queueMutex, currentPatient>>
           ELSE /\ currentPatient' = [currentPatient EXCEPT ![w] = Top(patientQueue)]
                /\ patientQueue' = patientQueue \ {Top(patientQueue)}
                /\ wpc' = [wpc EXCEPT ![w] = "w_acqD"]
                /\ queueMutex' = w
    /\ UNCHANGED <<isRunning, cv, semVars, ventilatorAllocated, held, treated,
                   arrivalVars, resourceVars, staffVars, mpc>>

\* lines 116-123, up to the first point where the thread blocks: the lock is
\* taken (also when cv.wait returns and re-locks), cv.wait evaluates its
\* predicate; when it is false the thread is about to block with the mutex
\* held; when it is true the thread breaks on shutdown with an empty queue or
\* else takes top() and pops it, and the lock goes out of scope.
WDequeue(w) ==
    /\ wpc[w] = "w_lock"
    /\ w \notin cv
    /\ queueMutex = Free
    /\ IF ~WaitPredicate
         THEN /\ queueMutex' = w
              /\ wpc' = [wpc EXCEPT ![w] = "w_wait"]
              /\ UNCHANGED <<patientQueue, currentPatient>>
         ELSE IF ~isRunning /\ patientQueue = {}
           THEN /\ wpc' = [wpc EXCEPT ![w] = "w_done"]
                /\ UNCHANGED <<patientQueue, queueMutex, currentPatient>>
           ELSE /\ currentPatient' = [currentPatient EXCEPT ![w] = Top(patientQueue)]
                /\ patientQueue' = patientQueue \ {Top(patientQueue)}
                /\ wpc' = [wpc EXCEPT ![w] = "w_acqD"]
                /\ UNCHANGED queueMutex
    /\ UNCHANGED <<isRunning, cv, semVars, ventilatorAllocated, held, treated,
                   arrivalVars, resourceVars, staffVars, mpc>>

\* line 117: cv.wait unlocks the mutex and blocks, atomically.
WWait(w) ==
    /\ wpc[w] = "w_wait"
    /\ queueMutex' = Free
    /\ cv' = cv \cup {w}
    /\ wpc' = [wpc EXCEPT ![w] = "w_lock"]
    /\ UNCHANGED <<isRunning, patientQueue, semVars, currentPatient,
                   ventilatorAllocated, held, treated, arrivalVars,
                   resourceVars, staffVars, mpc>>

\* ahead once the waiters are sc: a worker that is no longer blocked has
\* nobody ahead.
StillAhead(sc) ==
    [w \in Workers |-> IF \E r \in Pools : w \in sc[r] THEN ahead[w] ELSE {}]

\* Acquire that gives up and lets the thread return once the flag is cleared.
Acquire_AbortOnShutdown(w, r, next) ==
    /\ w \notin semcv[r]
    /\ LET a == acquire(count[r]) IN
         IF ~isRunning
           THEN /\ wpc' = [wpc EXCEPT ![w] = "w_done"]
                /\ UNCHANGED <<count, held, semcv, ahead>>
           ELSE IF a.ok
             THEN /\ count' = [count EXCEPT ![r] = a.count]
                  /\ held' = [held EXCEPT ![w][r] = @ + 1]
                  /\ wpc' = [wpc EXCEPT ![w] = next]
                  /\ UNCHANGED <<semcv, ahead>>
             ELSE /\ semcv' = [semcv EXCEPT ![r] = @ \cup {w}]
                  /\ ahead' = [ahead EXCEPT ![w] = semcv[r]]
                  /\ UNCHANGED <<count, held, wpc>>
    /\ UNCHANGED <<isRunning, queueVars, capacity, currentPatient,
                   ventilatorAllocated, treated, arrivalVars,
                   resourceVars, staffVars, mpc>>

\* Semaphore::acquire called by worker w on pool r (lines 47-51): take a unit
\* and go on to `next`, or block in the semaphore's cv.wait.
Acquire(w, r, next) ==
    /\ w \notin semcv[r]
    /\ LET a == acquire(count[r]) IN
         IF a.ok
           THEN /\ count' = [count EXCEPT ![r] = a.count]
                /\ held' = [held EXCEPT ![w][r] = @ + 1]
                /\ wpc' = [wpc EXCEPT ![w] = next]
                /\ UNCHANGED <<semcv, ahead>>
           ELSE /\ semcv' = [semcv EXCEPT ![r] = @ \cup {w}]
                /\ ahead' = [ahead EXCEPT ![w] = semcv[r]]
                /\ UNCHANGED <<count, held, wpc>>
    /\ UNCHANGED <<isRunning, queueVars, capacity, currentPatient,
                   ventilatorAllocated, treated, arrivalVars,
                   resourceVars, staffVars, mpc>>

\* WAcquireDoctor that takes a nurse where the doctor is due.
WAcquireDoctor_NurseFirst(w) ==
    /\ wpc[w] = "w_acqD"
    /\ Acquire(w, "nurses", "w_acqN")

\* line 125: doctorsAvailable.acquire()
WAcquireDoctor(w) == wpc[w] = "w_acqD" /\ Acquire(w, "doctors", "w_acqN")

\* line 126: nursesAvailable.acquire()
WAcquireNurse(w) == wpc[w] = "w_acqN" /\ Acquire(w, "nurses", "w_acqR")

\* line 127: examRoomsAvailable.acquire()
WAcquireExamRoom(w) == wpc[w] = "w_acqR" /\ Acquire(w, "examRooms", "w_vent")

\* WVentilator without the test of the priority.
WVentilator_AnyPriority(w) ==
    /\ wpc[w] = "w_vent"
    /\ LET t == IF count["ventilators"] > 0
                  THEN [ok |-> TRUE, count |-> count["ventilators"] - 1]
                  ELSE [ok |-> FALSE, count |-> count["ventilators"]] IN
         /\ count' = [count EXCEPT !["ventilators"] = t.count]
         /\ ventilatorAllocated' = [ventilatorAllocated EXCEPT ![w] = t.ok]
         /\ held' = [held EXCEPT ![w]["ventilators"] = IF t.ok THEN @ + 1 ELSE @]
    /\ wpc' = [wpc EXCEPT ![w] = "w_treat"]
    /\ UNCHANGED <<isRunning, queueVars, semcv, ahead, capacity, currentPatient,
                   treated, arrivalVars, resourceVars, staffVars, mpc>>

\* lines 130-137: the ventilator, by try_acquire, for a HIGH patient only.
WVentilator(w) ==
    /\ wpc[w] = "w_vent"
    /\ IF currentPatient[w].priority = HIGH
         THEN LET t == try_acquire(count["ventilators"]) IN
                /\ count' = [count EXCEPT !["ventilators"] = t.count]
                /\ ventilatorAllocated' = [ventilatorAllocated EXCEPT ![w] = t.ok]
                /\ held' = [held EXCEPT ![w]["ventilators"] =
                                           IF t.ok THEN @ + 1 ELSE @]
         ELSE UNCHANGED <<count, ventilatorAllocated, held>>
    /\ wpc' = [wpc EXCEPT ![w] = "w_treat"]
    /\ UNCHANGED <<isRunning, queueVars, semcv, ahead, capacity, currentPatient,
                   treated, arrivalVars, resourceVars, staffVars, mpc>>

\* lines 140-147: displayState, the treatment time, then
\* if (ventilatorAllocated) ventilatorsAvailable.release().  No thread ever
\* waits on the ventilators' cv (the pool is only try_acquired), so that
\* release's notify_one does nothing.
WTreat(w) ==
    /\ wpc[w] = "w_treat"
    /\ IF ventilatorAllocated[w]
         THEN /\ count' = [count EXCEPT !["ventilators"] = release(@)]
              /\ held' = [held EXCEPT ![w]["ventilators"] = @ - 1]
         ELSE UNCHANGED <<count, held>>
    /\ wpc' = [wpc EXCEPT ![w] = "w_relD"]
    /\ UNCHANGED <<isRunning, queueVars, semcv, ahead, capacity, currentPatient,
                   ventilatorAllocated, treated, arrivalVars, resourceVars,
                   staffVars, mpc>>

\* Semaphore::release called by worker w on pool r (lines 53-59): ++count, then
\* cv.notify_one().
Release(w, r, next) ==
    /\ count' = [count EXCEPT ![r] = release(@)]
    /\ held' = [held EXCEPT ![w][r] = @ - 1]
    /\ \E rest \in NotifyOne(semcv[r]) : semcv' = [semcv EXCEPT ![r] = rest]
    /\ ahead' = StillAhead(semcv')
    /\ wpc' = [wpc EXCEPT ![w] = next]
    /\ UNCHANGED <<isRunning, queueVars, capacity, arrivalVars, resourceVars,
                   staffVars, mpc>>

\* line 148: doctorsAvailable.release()
WReleaseDoctor(w) ==
    /\ wpc[w] = "w_relD"
    /\ Release(w, "doctors", "w_relN")
    /\ UNCHANGED <<currentPatient, ventilatorAllocated, treated>>

\* line 149: nursesAvailable.release()
WReleaseNurse(w) ==
    /\ wpc[w] = "w_relN"
    /\ Release(w, "nurses", "w_relR")
    /\ UNCHANGED <<currentPatient, ventilatorAllocated, treated>>

\* lines 150-154: examRoomsAvailable.release(), displayState "Finished", and
\* the end of the loop body, where currentPatient and ventilatorAllocated go
\* out of scope.
WFinish(w) ==
    /\ wpc[w] = "w_relR"
    /\ Release(w, "examRooms", "w_loop")
    /\ treated' = treated \cup {currentPatient[w].id}
    /\ currentPatient' = [currentPatient EXCEPT ![w] = NoPatient]
    /\ ventilatorAllocated' = [ventilatorAllocated EXCEPT ![w] = FALSE]

\* condition_variable::wait returning without a notification, on the queue's cv
\* or on a semaphore's.
SpuriousWakeup(w) ==
    /\ \/ /\ w \in cv
          /\ cv' = cv \ {w}
          /\ UNCHANGED <<semcv, ahead>>
       \/ /\ \E r \in Pools : /\ w \in semcv[r]
                              /\ semcv' = [semcv EXCEPT ![r] = @ \ {w}]
          /\ ahead' = StillAhead(semcv')
          /\ UNCHANGED cv
    /\ UNCHANGED <<isRunning, patientQueue, queueMutex, count, capacity,
                   workerVars, arrivalVars, resourceVars, staffVars, mpc>>

\* ---------------------------------------------------------- patientArrival
\* PALoop that goes on to the delay whatever the flag.
PALoop_IgnoresFlag ==
    /\ apc = "pa_loop"
    /\ ~isRunning \/ patientId <= MaxPatients
    /\ apc' = "pa_sleep"
    /\ UNCHANGED <<isRunning, queueVars, semVars, workerVars, patientId,
                   resourceVars, staffVars, mpc>>

\* line 173: while (isRunning).  Once MaxPatients patients exist the thread
\* stays here until shutdown.
PALoop ==
    /\ apc = "pa_loop"
    /\ ~isRunning \/ patientId <= MaxPatients
    /\ apc' = IF isRunning THEN "pa_sleep" ELSE "pa_done"
    /\ UNCHANGED <<isRunning, queueVars, semVars, workerVars, patientId,
                   resourceVars, staffVars, mpc>>

\* lines 174-175 and 160-167: the sleep ends, patientId++ and rand() % 3 are
\* evaluated, addPatient locks queueMutex, pushes the new patient, the lock
\* goes out of scope, cv.notify_one().
PAAdd ==
    /\ apc = "pa_sleep"
    /\ queueMutex = Free
    /\ \E p \in Priority :
           patientQueue' = patientQueue \cup {Patient(patientId, p)}
    /\ \E rest \in NotifyOne(cv) : cv' = rest
    /\ patientId' = patientId + 1
    /\ apc' = "pa_loop"
    /\ UNCHANGED <<isRunning, queueMutex, semVars, workerVars, resourceVars,
                   staffVars, mpc>>

\* ----------------------------------------------- dynamicResourceGeneration
\* units added so far, all pools together
Grown ==
    (capacity["doctors"] - InitDoctors) + (capacity["nurses"] - InitNurses)
        + (capacity["examRooms"] - InitExamRooms)

\* line 181: while (isRunning)
DRLoop ==
    /\ rpc = "dr_loop"
    /\ rpc' = IF isRunning THEN "dr_sleep" ELSE "dr_done"
    /\ UNCHANGED <<isRunning, queueVars, semVars, workerVars, arrivalVars,
                   newUnits, staffVars, mpc>>

\* The pools before r in the order of the for-loops of lines 188-190.
Before(r) ==
    CASE r = "doctors" -> {}
      [] r = "nurses" -> {"doctors"}
      [] r = "examRooms" -> {"doctors", "nurses"}

\* The for-loops of lines 188-190 that still release a unit once the one on
\* pool r has run ("none": before the first of them).
Pending(units, r) ==
    {q \in GrowPools : units[q] > 0 /\ (r = "none" \/ r \in Before(q))}

\* The first for-loop among `pending`.
First(pending) == CHOOSE q \in pending : Before(q) \cap pending = {}

\* The position of dynamicResourceGeneration in front of the for-loop on r.
DRAt(r) ==
    CASE r = "doctors" -> "dr_relD"
      [] r = "nurses" -> "dr_relN"
      [] r = "examRooms" -> "dr_relR"

\* After the for-loop on pool r: on to the next for-loop that releases a unit,
\* or, at the end of the block (lines 192-197), the message and the lock goes
\* out of scope.
DRGoOn(units, r) ==
    IF Pending(units, r) = {}
      THEN /\ queueMutex' = Free
           /\ newUnits' = [q \in GrowPools |-> 0]
           /\ rpc' = "dr_loop"
      ELSE /\ queueMutex' = DRG
           /\ newUnits' = units
           /\ rpc' = DRAt(First(Pending(units, r)))

\* lines 182-187: the sleep ends, queueMutex is locked, rand() % 2 three times;
\* when all three are 0 the block ends here.
DRLock ==
    /\ rpc = "dr_sleep"
    /\ queueMutex = Free
    /\ \E d \in {0, 1}, n \in {0, 1}, e \in {0, 1} :
          /\ Grown + d + n + e <= MaxGrow
          /\ DRGoOn([r \in GrowPools |->
                        CASE r = "doctors" -> d
                          [] r = "nurses" -> n
                          [] r = "examRooms" -> e], "none")
    /\ UNCHANGED <<isRunning, patientQueue, cv, semVars, workerVars,
                   arrivalVars, staffVars, mpc>>

\* DRRelease that gives its unit to the ventilators.
DRRelease_Ventilators ==
    /\ rpc \in {"dr_relD", "dr_relN", "dr_relR"}
    /\ LET r == CHOOSE q \in GrowPools : DRAt(q) = rpc IN
         /\ count' = [count EXCEPT !["ventilators"] = release(@)]
         /\ capacity' = [capacity EXCEPT !["ventilators"] = @ + 1]
         /\ UNCHANGED <<semcv, ahead>>
         /\ DRGoOn(newUnits, r)
    /\ UNCHANGED <<isRunning, patientQueue, cv, workerVars, arrivalVars,
                   staffVars, mpc>>

\* One for-loop of lines 188-190 that has a unit to release, with queueMutex
\* held: release(), that is ++count and cv.notify_one(); the pool has one more
\* unit from now on.
DRRelease ==
    /\ rpc \in {"dr_relD", "dr_relN", "dr_relR"}
    /\ LET r == CHOOSE q \in GrowPools : DRAt(q) = rpc IN
         /\ count' = [count EXCEPT ![r] = release(@)]
         /\ capacity' = [capacity EXCEPT ![r] = @ + 1]
         /\ \E rest \in NotifyOne(semcv[r]) :
                semcv' = [semcv EXCEPT ![r] = rest]
         /\ ahead' = StillAhead(semcv')
         /\ DRGoOn(newUnits, r)
    /\ UNCHANGED <<isRunning, patientQueue, cv, workerVars, arrivalVars,
                   staffVars, mpc>>

\* ----------------------------------------------------------- staffBehavior
\* line 203: while (isRunning)
SBLoop ==
    /\ spc = "sb_loop"
    /\ spc' = IF isRunning THEN "sb_sleep" ELSE "sb_done"
    /\ UNCHANGED <<isRunning, queueVars, semVars, workerVars, arrivalVars,
                   resourceVars, staffHeld, mpc>>

\* SBTry with the result of try_acquire ignored: the break is taken anyway.
SBTry_Unchecked ==
    /\ spc = "sb_sleep"
    /\ queueMutex = Free
    /\ LET t == try_acquire(count["doctors"]) IN
         /\ count' = [count EXCEPT !["doctors"] = t.count]
         /\ staffHeld' = IF t.ok THEN staffHeld + 1 ELSE staffHeld
    /\ queueMutex' = SB
    /\ spc' = "sb_break"
    /\ UNCHANGED <<isRunning, patientQueue, cv, semcv, ahead, capacity, workerVars,
                   arrivalVars, resourceVars, mpc>>

\* lines 204-207: the sleep ends, queueMutex is locked,
\* if (doctorsAvailable.try_acquire()); when it fails the block ends and the
\* lock goes out of scope.
SBTry ==
    /\ spc = "sb_sleep"
    /\ queueMutex = Free
    /\ LET t == try_acquire(count["doctors"]) IN
         /\ count' = [count EXCEPT !["doctors"] = t.count]
         /\ IF t.ok
              THEN /\ staffHeld' = staffHeld + 1
                   /\ queueMutex' = SB
                   /\ spc' = "sb_break"
              ELSE /\ spc' = "sb_loop"
                   /\ UNCHANGED <<staffHeld, queueMutex>>
    /\ UNCHANGED <<isRunning, patientQueue, cv, semcv, ahead, capacity, workerVars,
                   arrivalVars, resourceVars, mpc>>

\* lines 209-213: the break ends, doctorsAvailable.release(), the message, the
\* lock goes out of scope.
SBRelease ==
    /\ spc = "sb_break"
    /\ count' = [count EXCEPT !["doctors"] = release(@)]
    /\ staffHeld' = staffHeld - 1
    /\ \E rest \in NotifyOne(semcv["doctors"]) :
           semcv' = [semcv EXCEPT !["doctors"] = rest]
    /\ ahead' = StillAhead(semcv')
    /\ queueMutex' = Free
    /\ spc' = "sb_loop"
    /\ UNCHANGED <<isRunning, patientQueue, cv, capacity, workerVars,
                   arrivalVars, resourceVars, mpc>>

\* -------------------------------------------------------------------- main
\* lines 251-252: the run time ends, isRunning = false.
MShutdown ==
    /\ mpc = "m_run"
    /\ isRunning' = FALSE
    /\ mpc' = "m_notify"
    /\ UNCHANGED <<queueVars, semVars, workerVars, arrivalVars, resourceVars,
                   staffVars>>

\* line 253: cv.notify_all()
MNotifyAll ==
    /\ mpc = "m_notify"
    /\ cv' = {}
    /\ mpc' = "m_join"
    /\ UNCHANGED <<isRunning, patientQueue, queueMutex, semVars, workerVars,
                   arrivalVars, resourceVars, staffVars>>

\* lines 256-264: every join has returned.
MJoin ==
    /\ mpc = "m_join"
    /\ \A w \in Workers : wpc[w] = "w_done"
    /\ apc = "pa_done"
    /\ rpc = "dr_done"
    /\ spc = "sb_done"
    /\ mpc' = "m_done"
    /\ UNCHANGED <<isRunning, queueVars, semVars, workerVars, arrivalVars,
                   resourceVars, staffVars>>

\* ------------------------------------------------------- the specification
Worker(w) ==
    \/ WLoop(w) \/ WDequeue(w) \/ WWait(w)
    \/ WAcquireDoctor(w) \/ WAcquireNurse(w) \/ WAcquireExamRoom(w)
    \/ WVentilator(w) \/ WTreat(w)
    \/ WReleaseDoctor(w) \/ WReleaseNurse(w) \/ WFinish(w)

Arrival == PALoop \/ PAAdd

Resource == DRLoop \/ DRLock \/ DRRelease

Staff == SBLoop \/ SBTry \/ SBRelease

Main == MShutdown \/ MNotifyAll \/ MJoin

\* a step of the program's own code
Step ==
    \/ \E w \in Workers : Worker(w)
    \/ Arrival
    \/ Resource
    \/ Staff
    \/ Main

Next ==
    \/ Step
    \/ \E w \in Workers : SpuriousWakeup(w)

Spec == Init /\ [][Next]_vars

\* Every thread that can run does so eventually; a spurious wake-up is never
\* owed.
FairSpec ==
    /\ Spec
    /\ \A w \in Workers : WF_vars(Worker(w))
    /\ WF_vars(Arrival)
    /\ WF_vars(Resource)
    /\ WF_vars(Staff)
    /\ WF_vars(Main)

\* The Semaphore on its own: one treatPatient thread is the only user of the
\* pools, whose starting counts are drawn from 1..MaxStart (the ventilators
\* from 0..InitVentilators); patientArrival feeds it and main stops it.  The
\* other threads are not started and count as returned.
RoundTripInit ==
    /\ isRunning = TRUE
    /\ patientQueue = {}
    /\ queueMutex = Free
    /\ cv = {}
    /\ count \in [Pools -> 0..MaxStart]
    /\ \A r \in GrowPools : count[r] >= 1
    /\ count["ventilators"] <= InitVentilators
    /\ semcv = [r \in Pools |-> {}]
    /\ wpc = [w \in Workers |-> IF w = 1 THEN "w_loop" ELSE "w_done"]
    /\ currentPatient = [w \in Workers |-> NoPatient]
    /\ ventilatorAllocated = [w \in Workers |-> FALSE]
    /\ apc = "pa_loop"
    /\ patientId = 1
    /\ rpc = "dr_done"
    /\ newUnits = [r \in GrowPools |-> 0]
    /\ spc = "sb_done"
    /\ mpc = "m_run"
    /\ capacity = count
    /\ held = [w \in Workers |-> [r \in Pools |-> 0]]
    /\ staffHeld = 0
    /\ treated = {}
    /\ ahead = [w \in Workers |-> {}]

RoundTripNext ==
    \/ Worker(1)
    \/ SpuriousWakeup(1)
    \/ Arrival
    \/ Main

RoundTripSpec == RoundTripInit /\ [][RoundTripNext]_vars

\* The program with a single doctor, so that the staff break leaves none and
\* every worker that has dequeued a patient blocks in acquire on the doctors.
ScarceInit ==
    /\ isRunning = TRUE
    /\ patientQueue = {}
    /\ queueMutex = Free
    /\ cv = {}
    /\ count = [r \in Pools |->
                  CASE r = "doctors" -> 1
                    [] r = "nurses" -> InitNurses
                    [] r = "examRooms" -> InitExamRooms
                    [] r = "ventilators" -> InitVentilators]
    /\ semcv = [r \in Pools |-> {}]
    /\ wpc = [w \in Workers |-> "w_loop"]
    /\ currentPatient = [w \in Workers |-> NoPatient]
    /\ ventilatorAllocated = [w \in Workers |-> FALSE]
    /\ apc = "pa_loop"
    /\ patientId = 1
    /\ rpc = "dr_loop"
    /\ newUnits = [r \in GrowPools |-> 0]
    /\ spc = "sb_loop"
    /\ mpc = "m_run"
    /\ capacity = count
    /\ held = [w \in Workers |-> [r \in Pools |-> 0]]
    /\ staffHeld = 0
    /\ treated = {}
    /\ ahead = [w \in Workers |-> {}]

ScarceSpec == ScarceInit /\ [][Next]_vars

\* ------------------------------------------------------------- properties
PatientIds == 1..MaxPatients

NoUnits == [r \in Pools |-> 0]

TypeOK ==
    /\ isRunning \in BOOLEAN
    /\ \A p \in patientQueue : p.id \in PatientIds /\ p.priority \in Priority
    /\ queueMutex \in 0..(NumWorkers + 3)
    /\ cv \subseteq Workers
    /\ \A r \in Pools : count[r] \in Int /\ semcv[r] \subseteq Workers
    /\ \A w \in Workers : wpc[w] \in {"w_loop", "w_lock", "w_wait", "w_acqD",
                             "w_acqN", "w_acqR", "w_vent", "w_treat", "w_relD",
                             "w_relN", "w_relR", "w_done"}
    /\ apc \in {"pa_loop", "pa_sleep", "pa_done"}
    /\ rpc \in {"dr_loop", "dr_sleep", "dr_relD", "dr_relN", "dr_relR",
                "dr_done"}
    /\ spc \in {"sb_loop", "sb_sleep", "sb_break", "sb_done"}
    /\ mpc \in {"m_run", "m_notify", "m_join", "m_done"}
    /\ patientId \in 1..(MaxPatients + 1)
    /\ \A w \in Workers : ahead[w] \subseteq Workers \ {w}

\* a comes out of the queue before b: HIGH before MEDIUM before LOW, then the
\* smaller id
KeyBefore(a, b) ==
    \/ a.priority < b.priority
    \/ a.priority = b.priority /\ a.id < b.id

\* C1: every dequeue of treatPatient removes from the queue the one patient
\* that comes before every other patient queued at that moment, in the order
\* (HIGH, MEDIUM, LOW; then id ascending), whatever the order of the enqueues;
\* so dequeues with no enqueue in between come out sorted by that key.
C1_DequeueOrder ==
    [][\A w \in Workers :
          (currentPatient[w] = NoPatient /\ currentPatient'[w] # NoPatient) =>
              /\ currentPatient'[w] \in patientQueue
              /\ patientQueue' = patientQueue \ {currentPatient'[w]}
              /\ \A x \in patientQueue' : KeyBefore(currentPatient'[w], x)]_vars

\* A worker has dequeued the patient that arrived second while the one that
\* arrived first, of a lower priority, is still queued.
C1_Witness ==
    \E w \in Workers, x \in patientQueue :
        /\ currentPatient[w].id = 2
        /\ x.id = 1
        /\ x.priority > currentPatient[w].priority

\* C2: in every reachable state each pool has 0 <= available <= capacity,
\* capacity being the initial count plus the units dynamicResourceGeneration
\* has added.
C2_PoolBounds ==
    \A r \in Pools : 0 <= count[r] /\ count[r] <= capacity[r]

\* A pool has grown, the staff break holds a doctor, a worker is treating, and
\* some pool is exhausted.
C2_Witness ==
    /\ Grown > 0
    /\ spc = "sb_break"
    /\ \E w \in Workers : wpc[w] = "w_treat"
    /\ \E r \in Pools : count[r] = 0

\* C3: drain-to-empty on shutdown: no worker leaves its treatPatient loop
\* while a patient is still queued.
C3_DrainToEmpty ==
    [][\A w \in Workers :
          (wpc[w] # "w_done" /\ wpc'[w] = "w_done") => patientQueue = {}]_vars

\* C4: shutdown terminates: once main has set the flag and called notify_all
\* and the arrival thread has returned, no worker is left blocked in cv.wait
\* on the queue, where no thread would ever notify it again.
C4_ShutdownWakesAll ==
    ~(mpc = "m_join" /\ apc = "pa_done" /\ cv # {})

\* a worker is blocked in Semaphore::acquire
Blocked(w) == \E r \in Pools : w \in semcv[r]

C6_VentilatorOptional ==
    /\ [](/\ semcv["ventilators"] = {}
          /\ \A w \in Workers :
               /\ held[w]["ventilators"] =
                      (IF ventilatorAllocated[w] /\ wpc[w] = "w_treat"
                         THEN 1 ELSE 0)
               /\ held[w]["ventilators"] = 1 =>
                      /\ currentPatient[w].priority = HIGH
                      /\ \A r \in GrowPools : held[w][r] = 1)
    /\ [][\A w \in Workers :
            /\ (wpc[w] = "w_vent" /\ wpc'[w] # "w_vent") =>
                   /\ wpc'[w] = "w_treat"
                   /\ count'["ventilators"] =
                          (IF currentPatient[w].priority = HIGH
                                /\ count["ventilators"] > 0
                             THEN count["ventilators"] - 1
                             ELSE count["ventilators"])
            /\ (wpc[w] = "w_treat" /\ wpc'[w] # "w_treat") =>
                   count'["ventilators"] =
                       (IF ventilatorAllocated[w]
                          THEN count["ventilators"] + 1
                          ELSE count["ventilators"])]_vars

\* A worker has treated a HIGH patient without a ventilator, none being
\* available, and is releasing its units.
C6_Witness ==
    \E w \in Workers :
        /\ wpc[w] = "w_relN"
        /\ currentPatient[w].priority = HIGH
        /\ ~ventilatorAllocated[w]

\* the pools, the waiters and the queue are as they were
PoolsAndQueueUnchanged ==
    /\ count' = count
    /\ semcv' = semcv
    /\ capacity' = capacity
    /\ patientQueue' = patientQueue
    /\ cv' = cv

\* C7: try_acquire, by staffBehavior on the doctors and by a worker on the
\* ventilators, is one step that never blocks: with available > 0 it takes
\* exactly one unit of that pool and succeeds; with available = 0 it fails and
\* leaves every pool and the queue unchanged.
C7_TryAcquire ==
    [][/\ (spc = "sb_sleep" /\ spc' # "sb_sleep") =>
             IF count["doctors"] > 0
               THEN /\ count' = [count EXCEPT !["doctors"] = @ - 1]
                    /\ semcv' = semcv
                    /\ spc' = "sb_break"
               ELSE /\ PoolsAndQueueUnchanged
                    /\ spc' = "sb_loop"
       /\ \A w \in Workers :
            (/\ wpc[w] = "w_vent" /\ wpc'[w] # "w_vent"
             /\ currentPatient[w].priority = HIGH) =>
                 IF count["ventilators"] > 0
                   THEN /\ count' = [count EXCEPT !["ventilators"] = @ - 1]
                        /\ semcv' = semcv
                        /\ ventilatorAllocated'[w]
                   ELSE /\ PoolsAndQueueUnchanged
                        /\ ~ventilatorAllocated'[w]]_vars

\* A worker's try_acquire on the ventilators has failed, the other worker
\* holding the only unit, while the staff's try_acquire on the doctors has
\* succeeded.
C7_Witness ==
    /\ spc = "sb_break"
    /\ count["ventilators"] = 0
    /\ \E w \in Workers :
          /\ wpc[w] = "w_treat"
          /\ currentPatient[w].priority = HIGH
          /\ ~ventilatorAllocated[w]

\* C8: staffBehavior owns a doctor unit exactly during its break, never more
\* than one, and the doctors stay within 0..capacity; its try_acquire either
\* fails, and the cycle ends with every pool unchanged, or takes one doctor,
\* and the end of the break gives exactly that one unit back.
C8_FatigueSafe ==
    /\ [](/\ staffHeld = (IF spc = "sb_break" THEN 1 ELSE 0)
          /\ 0 <= count["doctors"]
          /\ count["doctors"] + staffHeld <= capacity["doctors"])
    /\ [][/\ (spc = "sb_sleep" /\ spc' = "sb_loop") =>
                /\ count["doctors"] = 0
                /\ PoolsAndQueueUnchanged
          /\ (spc = "sb_sleep" /\ spc' = "sb_break") =>
                /\ count' = [count EXCEPT !["doctors"] = @ - 1]
                /\ capacity' = capacity
          /\ (spc = "sb_break" /\ spc' # "sb_break") =>
                /\ count' = [count EXCEPT !["doctors"] = @ + 1]
                /\ capacity' = capacity
                /\ spc' = "sb_loop"]_vars

\* The staff break holds a doctor while a worker waits for one.
C8_Witness ==
    /\ spc = "sb_break"
    /\ staffHeld = 1
    /\ semcv["doctors"] # {}

\* C9: a worker terminates only from the loop condition or from the break of
\* the dequeue, after it has seen the flag cleared, owning no patient and no
\* unit; so once it has dequeued a patient it acquires, treats and releases
\* before it can terminate, and a terminated worker owns nothing.
C9_CooperativeShutdown ==
    /\ [](\A w \in Workers :
             wpc[w] = "w_done" =>
                 currentPatient[w] = NoPatient /\ held[w] = NoUnits)
    /\ [][\A w \in Workers :
            (wpc[w] # "w_done" /\ wpc'[w] = "w_done") =>
                /\ ~isRunning
                /\ wpc[w] \in {"w_loop", "w_lock"}
                /\ currentPatient[w] = NoPatient
                /\ held[w] = NoUnits]_vars

\* After main has set the flag and called notify_all, and after the other
\* worker has terminated, a worker still treats the patient it had dequeued,
\* holding its three units.
C9_Witness ==
    /\ mpc = "m_join"
    /\ \E w \in Workers :
          /\ wpc[w] = "w_treat"
          /\ currentPatient[w] # NoPatient
          /\ \A r \in GrowPools : held[w][r] = 1
    /\ \E w \in Workers : wpc[w] = "w_done"

\* C10: with one thread the only user of a pool that starts with at least one
\* unit, an acquire or a successful try_acquire takes the count from its
\* starting value to one less, the release that follows restores the starting
\* value, and after any number of treatments, each an acquire(); release();
\* pair on every pool, every count equals its starting value.
C10_RoundTrip ==
    /\ [](/\ \A r \in Pools : count[r] + held[1][r] = capacity[r]
          /\ wpc[1] \in {"w_loop", "w_lock", "w_wait", "w_done"} =>
                 count = capacity)
    /\ [][\A r \in Pools :
            /\ held'[1][r] > held[1][r] =>
                   /\ count[r] = capacity[r]
                   /\ count'[r] = count[r] - 1
            /\ held'[1][r] < held[1][r] =>
                   /\ count[r] = capacity[r] - 1
                   /\ count'[r] = capacity[r]]_vars

\* MaxPatients treatments have been completed, the ventilator having been
\* available to them, and every pool is back at its starting count.
C10_Witness ==
    /\ treated = PatientIds
    /\ wpc[1] = "w_loop"
    /\ capacity["ventilators"] = 1
    /\ capacity["doctors"] = 1
    /\ count = capacity

\* C11: every step of dynamicResourceGeneration leaves the queue and the
\* ventilators as they were and lowers no count and no capacity; a cycle draws
\* an increment of 0 or 1 for each of the doctors, nurses and exam rooms, and
\* the for-loop on a pool adds exactly one unit to that pool's count and
\* capacity and nothing to the others; a cycle whose three increments are zero
\* changes no pool.
C11_OnlyGrows ==
    /\ [](\A r \in GrowPools : newUnits[r] \in {0, 1})
    /\ [][rpc' # rpc =>
            /\ patientQueue' = patientQueue
            /\ cv' = cv
            /\ count'["ventilators"] = count["ventilators"]
            /\ capacity'["ventilators"] = capacity["ventilators"]
            /\ semcv'["ventilators"] = semcv["ventilators"]
            /\ \A r \in GrowPools :
                  IF rpc = DRAt(r)
                    THEN /\ newUnits[r] = 1
                         /\ count'[r] = count[r] + 1
                         /\ capacity'[r] = capacity[r] + 1
                         /\ rpc' \notin {DRAt(q) : q \in Before(r) \cup {r}}
                    ELSE /\ count'[r] = count[r]
                         /\ capacity'[r] = capacity[r]
                         /\ semcv'[r] = semcv[r]
            /\ (rpc = "dr_sleep" /\ rpc' = "dr_loop") =>
                  /\ count' = count
                  /\ capacity' = capacity
                  /\ semcv' = semcv]_vars

\* dynamicResourceGeneration has added a nurse and is back at its loop
\* condition, the nurses being one more than at the start.
C11_Witness ==
    /\ rpc = "dr_loop"
    /\ capacity["nurses"] = InitNurses + 1
    /\ capacity["doctors"] = InitDoctors
    /\ capacity["examRooms"] = InitExamRooms

\* C12: only treatPatient threads ever block in a pool's acquire, and a thread
\* that is about to call acquire or is blocked in one does not own queueMutex;
\* so the owner of queueMutex is never blocked on a pool, and no wait on a
\* pool can close a cycle with a wait on queueMutex.
C12_NoAcquireUnderQueueMutex ==
    /\ \A r \in Pools : semcv[r] \subseteq Workers /\ queueMutex \notin semcv[r]
    /\ \A w \in Workers :
          (wpc[w] \in {"w_acqD", "w_acqN", "w_acqR"} \/ Blocked(w)) =>
              queueMutex # w

\* A worker is blocked in acquire on the doctors while staffBehavior owns
\* queueMutex and a doctor, and dynamicResourceGeneration is waiting for
\* queueMutex.
C12_Witness ==
    /\ queueMutex = SB
    /\ staffHeld = 1
    /\ rpc = "dr_sleep"
    /\ \E w \in Workers : w \in semcv["doctors"] /\ wpc[w] = "w_acqD"

\* C13: while staffBehavior holds a doctor for its break, patientArrival's
\* enqueue and a worker's dequeue on a non-empty queue can proceed:
\* staffBehavior does not own queueMutex across its break.
C13_QueueFreeDuringBreak ==
    spc = "sb_break" =>
        /\ queueMutex # SB
        /\ apc = "pa_sleep" => ENABLED PAAdd
        /\ \A w \in Workers :
              (wpc[w] = "w_lock" /\ w \notin cv /\ patientQueue # {}) =>
                  ENABLED WDequeue(w)

\* worker w owns a unit of pool r
Holds(w, r) == held[w][r] >= 1

\* C14 as stated: in every state every worker holds a nurse only if it holds
\* a doctor, an exam room only if it holds a doctor and a nurse, a ventilator
\* only if it holds all three, any unit only while it owns a patient, and at
\* most one unit of each pool.
C14_NestedHolding ==
    \A w \in Workers :
        /\ Holds(w, "nurses") => Holds(w, "doctors")
        /\ Holds(w, "examRooms") => Holds(w, "doctors") /\ Holds(w, "nurses")
        /\ Holds(w, "ventilators") => \A r \in GrowPools : Holds(w, r)
        /\ held[w] # NoUnits => currentPatient[w] # NoPatient
        /\ \A r \in Pools : held[w][r] \in {0, 1}

\* C14, amended: the nesting by acquisition order holds in every state up to
\* the end of the treatment, that is before the worker's first release of a
\* mandatory unit; while it releases, in the order doctor, nurse, exam room,
\* it holds an exam room whenever it holds a nurse and a nurse whenever it
\* holds a doctor; in every state it holds a ventilator only if it holds all
\* three, any unit only while it owns a patient, and at most one unit of each
\* pool.
C14_NestedUntilRelease ==
    \A w \in Workers :
        /\ wpc[w] \notin {"w_relD", "w_relN", "w_relR"} =>
              /\ Holds(w, "nurses") => Holds(w, "doctors")
              /\ Holds(w, "examRooms") =>
                    Holds(w, "doctors") /\ Holds(w, "nurses")
        /\ wpc[w] \in {"w_relD", "w_relN", "w_relR"} =>
              /\ Holds(w, "doctors") => Holds(w, "nurses")
              /\ Holds(w, "nurses") => Holds(w, "examRooms")
              /\ Holds(w, "examRooms")
        /\ Holds(w, "ventilators") => \A r \in GrowPools : Holds(w, r)
        /\ held[w] # NoUnits => currentPatient[w] # NoPatient
        /\ \A r \in Pools : held[w][r] \in {0, 1}

\* A worker has released its doctor and still holds its nurse and its exam
\* room, while the other worker holds a doctor and no nurse yet.
C14_Witness ==
    /\ \E w \in Workers :
          /\ wpc[w] = "w_relN"
          /\ ~Holds(w, "doctors")
          /\ Holds(w, "nurses")
          /\ Holds(w, "examRooms")
    /\ \E w \in Workers :
          /\ wpc[w] = "w_acqN"
          /\ Holds(w, "doctors")
          /\ ~Holds(w, "nurses")

\* a call of release on pool r, by any thread
ReleaseOn(r) ==
    \/ r = "doctors" /\ (SBRelease \/ \E v \in Workers : WReleaseDoctor(v))
    \/ r = "nurses" /\ \E v \in Workers : WReleaseNurse(v)
    \/ r = "examRooms" /\ \E v \in Workers : WFinish(v)
    \/ r = "ventilators" /\ \E v \in Workers : WTreat(v)
    \/ r \in GrowPools /\ rpc = DRAt(r) /\ DRRelease

\* C15: wake-up at a pool does not depend on the priority of the patient a
\* worker carries: whenever some thread can call release on a pool, its
\* notify_one can wake any one of the workers blocked in acquire on that pool;
\* so a worker with a LOW patient that started to wait first can be served
\* before a worker with a HIGH patient that started to wait later.
C15_WakeupIgnoresPriority ==
    \A r \in Pools : \A w \in semcv[r] :
        ENABLED ReleaseOn(r) => ENABLED (ReleaseOn(r) /\ w \notin semcv'[r])

\* A worker with a LOW patient treats it while a worker with a HIGH patient,
\* which blocked in acquire on the doctors when the first one was already
\* blocked there, is still blocked.
C15_Witness ==
    \E w1 \in Workers, w2 \in Workers :
        /\ wpc[w1] = "w_treat"
        /\ currentPatient[w1].priority = LOW
        /\ w2 \in semcv["doctors"]
        /\ currentPatient[w2].priority = HIGH
        /\ w1 \in ahead[w2]

\* units of pool r owned by the workers in ws
RECURSIVE HeldBy(_, _)
HeldBy(ws, r) ==
    IF ws = {} THEN 0
    ELSE LET w == CHOOSE x \in ws : TRUE IN held[w][r] + HeldBy(ws \ {w}, r)

\* the workers in their treatment
Treating == {w \in Workers : wpc[w] = "w_treat"}

\* C16: for each pool, the count plus the units owned by the workers plus, for
\* the doctors, the unit owned by staffBehavior equals the pool's capacity; so
\* the workers in treatment are never more than the doctors, the nurses or the
\* exam rooms, at most one worker owns the ventilator, and once every worker
\* and both controllers have returned every count equals its capacity.
C16_UnitConservation ==
    /\ \A r \in Pools :
          count[r] + HeldBy(Workers, r)
              + (IF r = "doctors" THEN staffHeld ELSE 0) = capacity[r]
    /\ \A r \in GrowPools : Cardinality(Treating) <= capacity[r]
    /\ Cardinality({w \in Workers : Holds(w, "ventilators")}) <= 1
    /\ ((\A w \in Workers : wpc[w] = "w_done")
            /\ rpc = "dr_done" /\ spc = "sb_done") => count = capacity

\* With a second doctor added, one worker treats with the ventilator,
\* staffBehavior is on its break with the other doctor, and the other worker
\* waits for a doctor.
C16_Witness ==
    /\ capacity["doctors"] = 2
    /\ count["doctors"] = 0
    /\ staffHeld = 1
    /\ \E w \in Workers : wpc[w] = "w_treat" /\ Holds(w, "ventilators")
    /\ \E w \in Workers : w \in semcv["doctors"]

\* the ids of the patients the workers own
Owned == {currentPatient[w].id : w \in {v \in Workers : currentPatient[v] # NoPatient}}

\* the ids of the patients in the queue
Queued == {p.id : p \in patientQueue}

\* C17: no two workers own the same patient, a patient is never at once in
\* the queue, owned by a worker or treated, and all of them have been
\* enqueued; a worker dequeues only from a non-empty queue, the patient it
\* takes leaves the queue in the same step, and a treatment that finishes is
\* that of a patient not treated before.
C17_AtMostOnce ==
    /\ [](/\ \A w1 \in Workers, w2 \in Workers :
               (w1 # w2 /\ currentPatient[w1] # NoPatient
                        /\ currentPatient[w2] # NoPatient) =>
                   currentPatient[w1].id # currentPatient[w2].id
          /\ Owned \cap Queued = {}
          /\ treated \cap (Owned \cup Queued) = {}
          /\ Owned \cup Queued \cup treated = 1..(patientId - 1)
          /\ Cardinality(patientQueue) = Cardinality(Queued))
    /\ [][/\ \A w \in Workers :
               currentPatient'[w] \notin {currentPatient[w], NoPatient} =>
                   /\ currentPatient[w] = NoPatient
                   /\ patientQueue # {}
                   /\ currentPatient'[w] \in patientQueue
                   /\ currentPatient'[w] \notin patientQueue'
          /\ \A i \in treated' \ treated :
               /\ i \in Owned
               /\ i \notin Owned']_vars

\* The two workers treat the two patients, one each, at the same time.
C17_Witness ==
    /\ \A w \in Workers : wpc[w] = "w_treat"
    /\ Owned = PatientIds
    /\ patientQueue = {}

\* C18: isRunning, once cleared, stays cleared; patientArrival reads it only
\* at the top of its loop, and when it reads it cleared it returns without an
\* enqueue and never runs again; an enqueue happens only after the delay that
\* follows a read of the flag as set, whatever the flag is by then, and takes
\* the thread back to the top of the loop: so at most one patient is enqueued
\* after the flag has been cleared.  Each enqueue adds one patient whose id is
\* the next integer, larger than the id of every patient enqueued before.
C18_ArrivalAfterShutdown ==
    /\ [](\A i \in Owned \cup Queued \cup treated : i < patientId)
    /\ [][/\ isRunning' => isRunning
          /\ apc = "pa_done" => apc' = "pa_done"
          /\ (apc = "pa_loop" /\ apc' # apc) =>
                /\ apc' = (IF isRunning THEN "pa_sleep" ELSE "pa_done")
                /\ patientQueue' = patientQueue
                /\ patientId' = patientId
          /\ patientQueue' # patientQueue =>
                \/ /\ apc = "pa_sleep"
                   /\ apc' = "pa_loop"
                   /\ patientId' = patientId + 1
                   /\ \E p \in Priority :
                         patientQueue' =
                             patientQueue \cup {Patient(patientId, p)}
                \/ /\ patientQueue' \subseteq patientQueue
                   /\ UNCHANGED <<apc, patientId>>]_vars

\* main has cleared the flag and called notify_all while patientArrival,
\* having read the flag as set, is in its delay: its enqueue of the second
\* patient is still to come and can be taken.
C18_Witness ==
    /\ ~isRunning
    /\ mpc = "m_join"
    /\ apc = "pa_sleep"
    /\ patientId = 2
    /\ ENABLED PAAdd

====
